---- MODULE Spec2Model ----
(***************************************************************************)
(* Model of the Boolfuck interpreter of src/src/lib.rs: the State struct,  *)
(* its tape, bit input and bit output helpers, the bracket matcher, and    *)
(* step/run.  Indices (code_index, input_bit, output_bit, vector indices)  *)
(* are 0-based as in the source; TLA+ sequences are 1-based, so element i  *)
(* of a vector v is v[i + 1].                                              *)
(***************************************************************************)
EXTENDS Integers, Sequences, FiniteSets, TLC

VARIABLES
    pos,         \* State.pos: head position (signed)
    pos_tape,    \* State.pos_tape: cells 0, 1, ...
    neg_tape,    \* State.neg_tape: cells -1, -2, ...
    input,       \* State.input: bytes
    input_bit,   \* State.input_bit: next input bit
    output,      \* State.output: bytes
    output_bit,  \* State.output_bit: next output bit
    code,        \* State.code: program characters
    code_index,  \* State.code_index: program counter
    status,      \* outcome of run: Running, Halted (Ok), Failed (Err), Panicked
    error,       \* which Err the run returned
    pushed,      \* history: bits handed to push_output_bit, in order
    bits_read,   \* history: bits returned by get_input_bit, in order
    written,     \* history: position -> last value handed to set_bit there
    ret,         \* result of the last get_matching_bracket call
    steps        \* history: number of step calls run has made, up to StepCap

vars == <<pos, pos_tape, neg_tape, input, input_bit, output, output_bit,
          code, code_index, status, error, pushed, bits_read, written, ret,
          steps>>

-----------------------------------------------------------------------------
\* Bounds of the model

MaxCodeLen == 4     \* longest program of the interpreter runs
MaxRunInput == 1    \* longest input (bytes) of the interpreter runs
MaxPos == 4         \* head positions explored: -MaxPos .. MaxPos
MaxOutBits == 112   \* output bits a run may produce
MaxPush == 17       \* push_output_bit calls of the output-stream runs
MaxTapePos == 3     \* head positions of the tape runs: -MaxTapePos .. MaxTapePos
MaxInputLen == 2    \* longest input (bytes) of the input-stream runs
MaxMatchLen == 6    \* longest program of the bracket-matcher runs
MaxLead == 16       \* longest run of leading ';' of a straight-line program
MaxTail == 3        \* longest '+'/';' tail of a straight-line program
MaxRoundLen == 2    \* longest input (bytes) of the round-trip runs

-----------------------------------------------------------------------------
\* Input domains

Alphabet == {"+", ",", ";", "<", ">", "[", "]", " "}
BracketAlphabet == {"[", "]", " "}
StraightAlphabet == {"+", ";"}
TestBytes == {0, 1, 2, 81, 128, 163, 255}
RunBytes == {2, 255}

AllSeqs(S, n) == UNION {[1..k -> S] : k \in 0..n}

Repeat(c, n) == [i \in 1..n |-> c]

Pow2(k) == 2^k

-----------------------------------------------------------------------------
\* Tape storage

\* get_or_extend_mut filling the new cells with true
get_or_extend_mut_fill(vec, index) ==
    IF index >= Len(vec)
    THEN vec \o [i \in 1..(index + 1 - Len(vec)) |-> TRUE]
    ELSE vec

\* Vec::resize(index + 1, false) when index is not yet covered
get_or_extend_mut(vec, index) ==
    IF index >= Len(vec)
    THEN vec \o [i \in 1..(index + 1 - Len(vec)) |-> FALSE]
    ELSE vec

\* Vec::get(i).copied().unwrap_or(false)
CellOr(vec, index) ==
    IF index >= 0 /\ index < Len(vec) THEN vec[index + 1] ELSE FALSE

\* get_bit with the head at p
get_bit_at(pt, nt, p) ==
    IF p >= 0 THEN CellOr(pt, p) ELSE CellOr(nt, (-p) - 1)

get_bit == get_bit_at(pos_tape, neg_tape, pos)

\* set_bit with the negative index computed as -p instead of -p - 1
set_bit_mirror(pt, nt, p, bit) ==
    IF p >= 0
    THEN [pos_tape |-> [get_or_extend_mut(pt, p) EXCEPT ![p + 1] = bit],
          neg_tape |-> nt]
    ELSE [pos_tape |-> pt,
          neg_tape |-> [get_or_extend_mut(nt, -p) EXCEPT ![(-p) + 1] = bit]]

\* set_bit with the head at p: the two tapes after the write
set_bit(pt, nt, p, bit) ==
    IF p >= 0
    THEN [pos_tape |-> [get_or_extend_mut(pt, p) EXCEPT ![p + 1] = bit],
          neg_tape |-> nt]
    ELSE [pos_tape |-> pt,
          neg_tape |-> [get_or_extend_mut(nt, (-p) - 1) EXCEPT ![(-p) - 1 + 1] = bit]]

\* history of writes: the last value written at each written position
Record(w, p, bit) ==
    [q \in (DOMAIN w) \cup {p} |-> IF q = p THEN bit ELSE w[q]]

NoWrites == [q \in {} |-> FALSE]

-----------------------------------------------------------------------------
\* Bit input stream

\* word & (1u8 << k)
BitAnd(word, k) == ((word \div Pow2(k)) % 2) * Pow2(k)

\* get_input_bit reading each byte most-significant-bit first
get_input_bit_msb(inp, ibit) ==
    IF ibit \div 8 < Len(inp)
    THEN [ok |-> TRUE, bit |-> BitAnd(inp[(ibit \div 8) + 1], 7 - (ibit % 8)) /= 0,
          input_bit |-> ibit + 1]
    ELSE [ok |-> FALSE, bit |-> FALSE, input_bit |-> ibit]

\* get_input_bit answering Ok(false) once the input is exhausted
get_input_bit_default(inp, ibit) ==
    IF ibit \div 8 < Len(inp)
    THEN [ok |-> TRUE, bit |-> BitAnd(inp[(ibit \div 8) + 1], ibit % 8) /= 0,
          input_bit |-> ibit + 1]
    ELSE [ok |-> TRUE, bit |-> FALSE, input_bit |-> ibit + 1]

\* get_input_bit advancing the cursor before it looks for the byte
get_input_bit_eager(inp, ibit) ==
    IF ibit \div 8 < Len(inp)
    THEN [ok |-> TRUE, bit |-> BitAnd(inp[(ibit \div 8) + 1], ibit % 8) /= 0,
          input_bit |-> ibit + 1]
    ELSE [ok |-> FALSE, bit |-> FALSE, input_bit |-> ibit + 1]

\* get_input_bit: Ok(bit) and the advanced cursor, or Err and the cursor as it was
get_input_bit(inp, ibit) ==
    IF ibit \div 8 < Len(inp)
    THEN [ok |-> TRUE, bit |-> BitAnd(inp[(ibit \div 8) + 1], ibit % 8) /= 0,
          input_bit |-> ibit + 1]
    ELSE [ok |-> FALSE, bit |-> FALSE, input_bit |-> ibit]

-----------------------------------------------------------------------------
\* Bit output stream

\* byte | (1 << k), on a u8
BitOr(byte, k) ==
    IF (byte \div Pow2(k)) % 2 = 1 THEN byte ELSE (byte + Pow2(k)) % 256

\* push_output_bit: the buffer and cursor after the call; panic when the
\* expect() on output.get_mut(output_bit / 8) finds no byte
push_output_bit(out, obit, bit) ==
    IF bit
    THEN LET grown == IF (obit \div 8) + 1 > Len(out) THEN Append(out, 0) ELSE out
         IN  IF obit \div 8 < Len(grown)
             THEN [panic |-> FALSE,
                   output |-> [grown EXCEPT ![(obit \div 8) + 1] = BitOr(@, obit % 8)],
                   output_bit |-> obit + 1]
             ELSE [panic |-> TRUE, output |-> grown, output_bit |-> obit]
    ELSE [panic |-> FALSE, output |-> out, output_bit |-> obit + 1]

-----------------------------------------------------------------------------
\* Bracket matcher

MatchOk(i) == [kind |-> "Ok", target |-> i]
MatchErr == [kind |-> "Err", target |-> -1]
MatchPanic == [kind |-> "Panic", target |-> -1]
NoMatch == [kind |-> "None", target |-> -1]

\* the loop without mismatch_count: the first match_char is taken
RECURSIVE MatchLoopFlat(_, _, _, _, _, _, _)
MatchLoopFlat(c, idx, init_char, match_char, direction, position_adjust, mm) ==
    IF idx = 0 /\ direction < 0 THEN MatchErr
    ELSE IF idx + 1 = Len(c) /\ direction > 0 THEN MatchErr
    ELSE LET n == idx + direction IN
         IF n < 0 \/ n >= Len(c) THEN MatchPanic
         ELSE IF c[n + 1] = match_char THEN MatchOk(n + position_adjust)
         ELSE MatchLoopFlat(c, n, init_char, match_char, direction, position_adjust, mm)

\* the loop without the test for the last index when scanning forward
RECURSIVE MatchLoopNoEnd(_, _, _, _, _, _, _)
MatchLoopNoEnd(c, idx, init_char, match_char, direction, position_adjust, mm) ==
    IF idx = 0 /\ direction < 0 THEN MatchErr
    ELSE LET n == idx + direction IN
         IF n < 0 \/ n >= Len(c) THEN MatchPanic
         ELSE IF c[n + 1] = init_char
              THEN MatchLoopNoEnd(c, n, init_char, match_char, direction, position_adjust, mm + 1)
         ELSE IF c[n + 1] = match_char
              THEN IF mm > 0
                   THEN MatchLoopNoEnd(c, n, init_char, match_char, direction, position_adjust, mm - 1)
                   ELSE MatchOk(n + position_adjust)
         ELSE MatchLoopNoEnd(c, n, init_char, match_char, direction, position_adjust, mm)

\* the loop of get_matching_bracket, from the scan position idx with
\* mismatch_count mm; code[idx] outside the vector panics
RECURSIVE MatchLoop(_, _, _, _, _, _, _)
MatchLoop(c, idx, init_char, match_char, direction, position_adjust, mm) ==
    IF idx = 0 /\ direction < 0 THEN MatchErr
    ELSE IF idx + 1 = Len(c) /\ direction > 0 THEN MatchErr
    ELSE LET n == idx + direction IN
         IF n < 0 \/ n >= Len(c) THEN MatchPanic
         ELSE IF c[n + 1] = init_char
              THEN MatchLoop(c, n, init_char, match_char, direction, position_adjust, mm + 1)
         ELSE IF c[n + 1] = match_char
              THEN IF mm > 0
                   THEN MatchLoop(c, n, init_char, match_char, direction, position_adjust, mm - 1)
                   ELSE MatchOk(n + position_adjust)
         ELSE MatchLoop(c, n, init_char, match_char, direction, position_adjust, mm)

\* get_matching_bracket(init_char) with self.code = c, self.code_index = start
get_matching_bracket(c, start, init_char) ==
    IF init_char = "[" THEN MatchLoop(c, start, "[", "]", 1, 1, 0)
    ELSE IF init_char = "]" THEN MatchLoop(c, start, "]", "[", -1, 0, 0)
    ELSE MatchErr

-----------------------------------------------------------------------------
\* Execution engine: one action per arm of the match in step, each with the
\* and_then that follows it and the handling of the result by run

Command == code[code_index + 1]

Dispatching == status = "Running" /\ code_index < Len(code)

\* the count of step calls stops at StepCap, past every program length
StepCap == MaxCodeLen + 2

\* one more call of step by the loop of run
Tick == IF steps < StepCap THEN steps + 1 ELSE steps

\* the and_then closure comparing with <= instead of <
AdvanceLate ==
    /\ code_index' = code_index + 1
    /\ status' = IF code_index + 1 <= Len(code) THEN "Running" ELSE "Halted"
    /\ error' = error
    /\ steps' = Tick

\* and_then closure when no jump was taken, and run's match on Ok(true)/Ok(false)
Advance ==
    /\ code_index' = code_index + 1
    /\ status' = IF code_index + 1 < Len(code) THEN "Running" ELSE "Halted"
    /\ error' = error
    /\ steps' = Tick

\* the and_then closure incrementing the program counter after a jump too
JumpToNext(i) ==
    /\ code_index' = i + 1
    /\ status' = IF i + 1 < Len(code) THEN "Running" ELSE "Halted"
    /\ error' = error
    /\ steps' = Tick

\* and_then closure after a taken jump to i
JumpTo(i) ==
    /\ code_index' = i
    /\ status' = IF i < Len(code) THEN "Running" ELSE "Halted"
    /\ error' = error
    /\ steps' = Tick

\* run's match on Err(e)
Fail(reason) ==
    /\ status' = "Failed"
    /\ error' = reason
    /\ code_index' = code_index
    /\ steps' = Tick

\* code.get(code_index) is None
StepPastEnd ==
    /\ status = "Running"
    /\ code_index >= Len(code)
    /\ Fail("BeyondEnd")
    /\ UNCHANGED <<pos, pos_tape, neg_tape, input, input_bit, output, output_bit,
                   code, pushed, bits_read, written, ret>>

\* '+'
StepFlip ==
    /\ Dispatching
    /\ Command = "+"
    /\ LET t == set_bit(pos_tape, neg_tape, pos, ~get_bit) IN
         /\ pos_tape' = t.pos_tape
         /\ neg_tape' = t.neg_tape
    /\ written' = Record(written, pos, ~get_bit)
    /\ Advance
    /\ UNCHANGED <<pos, input, input_bit, output, output_bit, code, pushed,
                   bits_read, ret>>

\* ','
StepInput ==
    /\ Dispatching
    /\ Command = ","
    /\ LET r == get_input_bit(input, input_bit) IN
         /\ input_bit' = r.input_bit
         /\ IF r.ok
            THEN LET t == set_bit(pos_tape, neg_tape, pos, r.bit) IN
                   /\ pos_tape' = t.pos_tape
                   /\ neg_tape' = t.neg_tape
                   /\ written' = Record(written, pos, r.bit)
                   /\ bits_read' = Append(bits_read, r.bit)
                   /\ Advance
            ELSE /\ Fail("InputExhausted")
                 /\ UNCHANGED <<pos_tape, neg_tape, written, bits_read>>
    /\ UNCHANGED <<pos, input, output, output_bit, code, pushed, ret>>

\* ';' reading the head cell through get_or_extend_mut, which grows the tape
StepOutputTouch ==
    /\ Dispatching
    /\ Command = ";"
    /\ output_bit < MaxOutBits
    /\ LET r == push_output_bit(output, output_bit, get_bit)
           t == set_bit(pos_tape, neg_tape, pos, get_bit)
       IN
         /\ output' = r.output
         /\ output_bit' = r.output_bit
         /\ pushed' = Append(pushed, get_bit)
         /\ pos_tape' = t.pos_tape
         /\ neg_tape' = t.neg_tape
         /\ IF r.panic
            THEN /\ status' = "Panicked"
                 /\ steps' = Tick
                 /\ UNCHANGED <<code_index, error>>
            ELSE Advance
    /\ UNCHANGED <<pos, input, input_bit, code, bits_read, written, ret>>

\* ';'
StepOutput ==
    /\ Dispatching
    /\ Command = ";"
    /\ output_bit < MaxOutBits
    /\ LET r == push_output_bit(output, output_bit, get_bit) IN
         /\ output' = r.output
         /\ output_bit' = r.output_bit
         /\ pushed' = Append(pushed, get_bit)
         /\ IF r.panic
            THEN /\ status' = "Panicked"
                 /\ steps' = Tick
                 /\ UNCHANGED <<code_index, error>>
            ELSE Advance
    /\ UNCHANGED <<pos, pos_tape, neg_tape, input, input_bit, code, bits_read,
                   written, ret>>

\* '<'
StepLeft ==
    /\ Dispatching
    /\ Command = "<"
    /\ pos > -MaxPos
    /\ pos' = pos - 1
    /\ Advance
    /\ UNCHANGED <<pos_tape, neg_tape, input, input_bit, output, output_bit,
                   code, pushed, bits_read, written, ret>>

\* '>'
StepRight ==
    /\ Dispatching
    /\ Command = ">"
    /\ pos < MaxPos
    /\ pos' = pos + 1
    /\ Advance
    /\ UNCHANGED <<pos_tape, neg_tape, input, input_bit, output, output_bit,
                   code, pushed, bits_read, written, ret>>

\* a taken '[' or ']': get_matching_bracket(c).map(..) and what follows
Jump(c) ==
    LET r == get_matching_bracket(code, code_index, c) IN
      /\ ret' = r
      /\ IF r.kind = "Ok" THEN JumpTo(r.target)
         ELSE IF r.kind = "Err" THEN Fail("UnbalancedBrackets")
         ELSE /\ status' = "Panicked"
              /\ steps' = Tick
              /\ UNCHANGED <<code_index, error>>

\* '[' resolving its partner whatever the bit at the head is
StepOpenAlways ==
    /\ Dispatching
    /\ Command = "["
    /\ Jump("[")
    /\ UNCHANGED <<pos, pos_tape, neg_tape, input, input_bit, output, output_bit,
                   code, pushed, bits_read, written>>

\* '[': the guarded arm when the bit is false, else the wildcard arm
StepOpen ==
    /\ Dispatching
    /\ Command = "["
    /\ IF ~get_bit THEN Jump("[") ELSE Advance /\ ret' = ret
    /\ UNCHANGED <<pos, pos_tape, neg_tape, input, input_bit, output, output_bit,
                   code, pushed, bits_read, written>>

\* ']': the guarded arm when the bit is true, else the wildcard arm
StepClose ==
    /\ Dispatching
    /\ Command = "]"
    /\ IF get_bit THEN Jump("]") ELSE Advance /\ ret' = ret
    /\ UNCHANGED <<pos, pos_tape, neg_tape, input, input_bit, output, output_bit,
                   code, pushed, bits_read, written>>

\* any other character moving the head
StepNoopMoves ==
    /\ Dispatching
    /\ Command \notin {"+", ",", ";", "<", ">", "[", "]"}
    /\ pos' = pos + 1
    /\ Advance
    /\ UNCHANGED <<pos_tape, neg_tape, input, input_bit, output, output_bit,
                   code, pushed, bits_read, written, ret>>

\* any other character leaving the program counter where it is
StepNoopStay ==
    /\ Dispatching
    /\ Command \notin {"+", ",", ";", "<", ">", "[", "]"}
    /\ steps' = Tick
    /\ UNCHANGED <<pos, pos_tape, neg_tape, input, input_bit, output, output_bit,
                   code, code_index, status, error, pushed, bits_read, written, ret>>

\* any other character
StepNoop ==
    /\ Dispatching
    /\ Command \notin {"+", ",", ";", "<", ">", "[", "]"}
    /\ Advance
    /\ UNCHANGED <<pos, pos_tape, neg_tape, input, input_bit, output, output_bit,
                   code, pushed, bits_read, written, ret>>

\* State::new(code, input)
New(c, inp) ==
    /\ pos = 0
    /\ pos_tape = <<>>
    /\ neg_tape = <<>>
    /\ input = inp
    /\ input_bit = 0
    /\ output = <<0>>
    /\ output_bit = 0
    /\ code = c
    /\ code_index = 0
    /\ status = "Running"
    /\ error = "none"
    /\ pushed = <<>>
    /\ bits_read = <<>>
    /\ written = NoWrites
    /\ ret = NoMatch
    /\ steps = 0

\* State::new(code, input).run() over every program and input of the bounds
Init ==
    \E c \in AllSeqs(Alphabet, MaxCodeLen), inp \in AllSeqs(RunBytes, MaxRunInput) :
        New(c, inp)

Next ==
    \/ StepPastEnd
    \/ StepFlip
    \/ StepInput
    \/ StepOutput
    \/ StepLeft
    \/ StepRight
    \/ StepOpen
    \/ StepClose
    \/ StepNoop

Spec == Init /\ [][Next]_vars

-----------------------------------------------------------------------------
\* Output stream runs: push_output_bit called directly on a fresh state, as
\* tests::test_push_output_bit does

InitPush == New(<<>>, <<>>)

CallPush ==
    /\ status = "Running"
    /\ Len(pushed) < MaxPush
    /\ \E bit \in BOOLEAN :
         LET r == push_output_bit(output, output_bit, bit) IN
           /\ output' = r.output
           /\ output_bit' = r.output_bit
           /\ pushed' = Append(pushed, bit)
           /\ status' = IF r.panic THEN "Panicked" ELSE status
    /\ UNCHANGED <<pos, pos_tape, neg_tape, input, input_bit, code, code_index,
                   error, bits_read, written, ret, steps>>

NextPush == CallPush

SpecPush == InitPush /\ [][NextPush]_vars

-----------------------------------------------------------------------------
\* Input stream runs: get_input_bit called directly on a fresh state, as
\* tests::test_get_input_bit does

InitInput == \E inp \in AllSeqs(TestBytes, MaxInputLen) : New(<<>>, inp)

CallGetInputBit ==
    /\ status = "Running"
    /\ LET r == get_input_bit(input, input_bit) IN
         /\ input_bit' = r.input_bit
         /\ IF r.ok
            THEN /\ bits_read' = Append(bits_read, r.bit)
                 /\ UNCHANGED <<status, error>>
            ELSE /\ status' = "Failed"
                 /\ error' = "InputExhausted"
                 /\ UNCHANGED bits_read
    /\ UNCHANGED <<pos, pos_tape, neg_tape, input, output, output_bit, code,
                   code_index, pushed, written, ret, steps>>

NextInput == CallGetInputBit

SpecInput == InitInput /\ [][NextInput]_vars

-----------------------------------------------------------------------------
\* Tape runs: the head placed and set_bit called directly on a fresh state,
\* as tests::test_bit_setting and tests::test_negative_bit_setting do

Positions == (-MaxTapePos)..MaxTapePos

InitTape == New(<<>>, <<>>)

\* state.pos = p
MoveHead ==
    /\ \E p \in Positions : p /= pos /\ pos' = p
    /\ UNCHANGED <<pos_tape, neg_tape, input, input_bit, output, output_bit,
                   code, code_index, status, error, pushed, bits_read, written, ret,
                   steps>>

\* state.set_bit(bit)
CallSetBit ==
    /\ \E bit \in BOOLEAN :
         LET t == set_bit(pos_tape, neg_tape, pos, bit) IN
           /\ pos_tape' = t.pos_tape
           /\ neg_tape' = t.neg_tape
           /\ written' = Record(written, pos, bit)
    /\ UNCHANGED <<pos, input, input_bit, output, output_bit, code, code_index,
                   status, error, pushed, bits_read, ret, steps>>

NextTape == MoveHead \/ CallSetBit

SpecTape == InitTape /\ [][NextTape]_vars

-----------------------------------------------------------------------------
\* Bracket matcher runs: code_index placed on a bracket and
\* get_matching_bracket called directly, as tests::test_jump_to_matching_bracket does

InitMatch == \E c \in AllSeqs(BracketAlphabet, MaxMatchLen) : New(c, <<>>)

CallMatch ==
    /\ \E i \in 0..(Len(code) - 1) :
         /\ code[i + 1] \in {"[", "]"}
         /\ code_index' = i
         /\ ret' = get_matching_bracket(code, i, code[i + 1])
    /\ UNCHANGED <<pos, pos_tape, neg_tape, input, input_bit, output, output_bit,
                   code, status, error, pushed, bits_read, written, steps>>

NextMatch == CallMatch

SpecMatch == InitMatch /\ [][NextMatch]_vars

-----------------------------------------------------------------------------
\* Straight-line runs: programs of '+' and ';' only, empty input, as
\* tests::test_run does

HelloWorld == <<
    ";", ";", ";", "+", ";", "+", ";", ";", "+", ";", "+", ";", "+", ";", "+", ";",
    "+", ";", "+", ";", ";", "+", ";", ";", "+", ";", ";", ";", "+", ";", ";", "+",
    ";", "+", ";", ";", "+", ";", ";", ";", "+", ";", ";", "+", ";", "+", ";", ";",
    "+", ";", "+", ";", ";", ";", ";", "+", ";", "+", ";", ";", "+", ";", ";", ";",
    "+", ";", ";", "+", ";", "+", ";", "+", ";", ";", ";", ";", ";", ";", ";", "+",
    ";", "+", ";", ";", "+", ";", ";", ";", "+", ";", "+", ";", ";", ";", "+", ";",
    "+", ";", ";", ";", ";", "+", ";", "+", ";", ";", "+", ";", ";", "+", ";", "+",
    ";", ";", "+", ";", ";", ";", "+", ";", ";", ";", "+", ";", ";", "+", ";", "+",
    ";", ";", "+", ";", ";", ";", "+", ";", "+", ";", ";", "+", ";", ";", "+", ";",
    "+", ";", "+", ";", ";", ";", ";", "+", ";", "+", ";", ";", ";", "+", ";", "+",
    ";", "+", ";" >>

HelloBytes == <<72, 101, 108, 108, 111, 44, 32, 119, 111, 114, 108, 100, 33, 10>>

StraightPrograms ==
    {Repeat(";", a) \o p : a \in 0..MaxLead, p \in AllSeqs(StraightAlphabet, MaxTail)}
      \cup {HelloWorld}

InitStraight == \E c \in StraightPrograms \ {<<>>} : New(c, <<>>)

NextStraight == StepFlip \/ StepOutput

SpecStraight == InitStraight /\ [][NextStraight]_vars

-----------------------------------------------------------------------------
\* Round-trip runs: the program of 8 * n repetitions of ",;" on an input of
\* n bytes

RoundTrip(n) == [i \in 1..(16 * n) |-> IF i % 2 = 1 THEN "," ELSE ";"]

InitRound ==
    \E inp \in AllSeqs(TestBytes, MaxRoundLen) \ {<<>>} :
        New(RoundTrip(Len(inp)), inp)

NextRound == StepInput \/ StepOutput

SpecRound == InitRound /\ [][NextRound]_vars

-----------------------------------------------------------------------------
\* Vocabulary of the properties

\* bit k (least significant first) of a byte buffer; FALSE where no byte is
OutBit(out, k) ==
    IF k \div 8 < Len(out) THEN (out[(k \div 8) + 1] \div Pow2(k % 8)) % 2 = 1 ELSE FALSE

\* the tape as the history of writes defines it
Ideal(q) == IF q \in DOMAIN written THEN written[q] ELSE FALSE

\* nesting depth after the first k characters of c
Depth(c, k) ==
    Cardinality({i \in 1..k : c[i] = "["}) - Cardinality({i \in 1..k : c[i] = "]"})

Balanced(c) ==
    /\ Depth(c, Len(c)) = 0
    /\ \A k \in 0..Len(c) : Depth(c, k) >= 0

\* 0-based indices of the closers that close the '[' at 0-based index i
Closers(c, i) ==
    {j \in (i + 1)..(Len(c) - 1) :
        /\ c[j + 1] = "]"
        /\ Depth(c, j + 1) = Depth(c, i)
        /\ \A m \in (i + 1)..j : Depth(c, m) > Depth(c, i)}

\* 0-based indices of the openers that open the ']' at 0-based index j
Openers(c, j) ==
    {i \in 0..(j - 1) :
        /\ c[i + 1] = "["
        /\ Depth(c, i) = Depth(c, j + 1)
        /\ \A m \in (i + 1)..j : Depth(c, m) > Depth(c, j + 1)}

\* a get_matching_bracket call has been made at code_index
Called == ret.kind /= "None"

\* positions of the ';' of c, 0-based, in order
Semis(c) == {i \in 0..(Len(c) - 1) : c[i + 1] = ";"}

\* 0-based index of the k-th ';' of c (k from 0)
KthSemi(c, k) ==
    CHOOSE i \in Semis(c) : Cardinality({j \in Semis(c) : j < i}) = k

\* parity of the number of '+' before the k-th ';'
PlusParity(c, k) ==
    Cardinality({j \in 0..(KthSemi(c, k) - 1) : c[j + 1] = "+"}) % 2 = 1

-----------------------------------------------------------------------------
\* Properties

\* C1: a step taken with the program counter at or beyond the end of the
\* program halts the run successfully with the output buffer as it is; it
\* never fails.
C1_StepAtEndHalts ==
    [][(status = "Running" /\ code_index >= Len(code))
         => (status' = "Halted" /\ output' = output)]_vars

\* C2: no push_output_bit call fails or aborts, and the output cursor equals
\* the number of calls made.
C2_PushAlwaysSucceeds ==
    status /= "Panicked" /\ output_bit = Len(pushed)

\* C3: after n >= 1 pushes the buffer has exactly ceil(n / 8) bytes, bit k is
\* the k-th pushed bit for k < n, and all remaining bits are 0.
C3_OutputPacking ==
    (Len(pushed) >= 1 /\ status = "Running")
      => /\ Len(output) = (Len(pushed) + 7) \div 8
         /\ \A k \in 0..(8 * Len(output) - 1) :
              OutBit(output, k) = (k < Len(pushed) /\ pushed[k + 1])

\* C4: the k-th successful get_input_bit call returns bit (k mod 8) of byte
\* (k div 8), least significant bit first, and each successful call advances
\* the cursor by exactly one; 0b10100011 reads as 1,1,0,0,0,1,0,1.
C4_InputBitOrder ==
    /\ input_bit = Len(bits_read)
    /\ \A k \in 0..(Len(bits_read) - 1) :
         /\ k < 8 * Len(input)
         /\ bits_read[k + 1] = ((input[(k \div 8) + 1] \div Pow2(k % 8)) % 2 = 1)
    /\ (input = <<163>> /\ Len(bits_read) = 8)
         => bits_read = <<TRUE, TRUE, FALSE, FALSE, FALSE, TRUE, FALSE, TRUE>>

C4_Witness ==
    /\ Len(input) = 2
    /\ input[2] = 163
    /\ Len(bits_read) = 16
    /\ SubSeq(bits_read, 9, 16) = <<TRUE, TRUE, FALSE, FALSE, FALSE, TRUE, FALSE, TRUE>>

\* C5: a ',' executed when the cursor's byte index is not an index of the
\* input fails with InputExhausted and writes nothing to the tape; a ','
\* executed while the byte index is valid does not fail.
C5_InputExhausted ==
    [][(Dispatching /\ Command = ",")
         => IF input_bit \div 8 >= Len(input)
            THEN /\ status' = "Failed"
                 /\ error' = "InputExhausted"
                 /\ UNCHANGED <<pos_tape, neg_tape, written>>
            ELSE /\ status' \in {"Running", "Halted"}
                 /\ error' = "none"
                 /\ pos \in DOMAIN written']_vars

C5_Witness ==
    /\ status = "Failed"
    /\ error = "InputExhausted"
    /\ input = <<255>>
    /\ input_bit = 8

\* C6: reading any position returns the most recent value written there, or
\* false if it was never written, and a write at the head changes what is
\* read at no other position.
C6_ReadAfterWrite ==
    /\ [](\A q \in Positions : get_bit_at(pos_tape, neg_tape, q) = Ideal(q))
    /\ [][\A q \in Positions \ {pos} :
            get_bit_at(pos_tape', neg_tape', q) = get_bit_at(pos_tape, neg_tape, q)]_vars

C6_Witness ==
    /\ {1, -1, -2} \subseteq DOMAIN written
    /\ 0 \notin DOMAIN written
    /\ written[1] /\ ~written[-1] /\ written[-2]
    /\ pos = -1
    /\ ~get_bit

\* C7: in a balanced program, get_matching_bracket from a '[' at i whose
\* closer is at j returns j + 1, and from that ']' at j returns i; in [[][]]
\* index 0 maps to 6, 5 to 0, 3 to 5 and 4 to 3.
C7_BracketPairing ==
    (Called /\ Balanced(code))
      => IF code[code_index + 1] = "["
         THEN \E j \in Closers(code, code_index) : ret = MatchOk(j + 1)
         ELSE \E i \in Openers(code, code_index) : ret = MatchOk(i)

C7_Witness ==
    /\ code = <<"[", "[", "]", "[", "]", "]">>
    /\ code_index = 0
    /\ ret = MatchOk(6)

\* C8: get_matching_bracket from a bracket that has no partner ends with an
\* UnbalancedBrackets failure: no index outside the program, no target.
C8_UnbalancedFails ==
    (Called /\ (IF code[code_index + 1] = "["
                THEN Closers(code, code_index) = {}
                ELSE Openers(code, code_index) = {}))
      => ret = MatchErr

C8_Witness ==
    /\ code = <<"[", "[", " ", "]">>
    /\ code_index = 0
    /\ ret = MatchErr

\* C9: a non-empty program of '+' and ';' with at least one ';', run with
\* empty input, succeeds, and bit k of the bytes it returns is the parity of
\* the number of '+' before the k-th ';'; the Hello, world! program returns
\* the 14 bytes of "Hello, world!\n".
C9_StraightLineOutput ==
    (Semis(code) /= {})
      => /\ status /= "Panicked"
         /\ status /= "Failed"
         /\ status = "Halted"
              => /\ \A k \in 0..(Cardinality(Semis(code)) - 1) :
                      OutBit(output, k) = PlusParity(code, k)
                 /\ code = HelloWorld => output = HelloBytes

\* C10: a failing step ends the run with the failure as its result, leaves
\* tape, head, program counter, input cursor, output buffer and output cursor
\* as they were, and nothing is dispatched after it.
C10_FailFast ==
    [][/\ (status = "Running" /\ status' = "Failed")
            => /\ error' \in {"InputExhausted", "UnbalancedBrackets", "BeyondEnd"}
               /\ UNCHANGED <<pos, pos_tape, neg_tape, code_index, input_bit,
                              output, output_bit>>
       /\ status = "Failed" => UNCHANGED vars]_vars

C10_Witness ==
    /\ status = "Failed"
    /\ error = "UnbalancedBrackets"
    /\ code_index > 0
    /\ written /= NoWrites

\* the characters step gives an arm of their own
Meaningful == {"+", ",", ";", "<", ">", "[", "]"}

\* a step that returned Ok
Succeeded == status = "Running" /\ status' \in {"Running", "Halted"}

\* the cells a run of the bounds can address
Cells == (-MaxPos - 1)..(MaxPos + 1)

\* every cell but the one at the head reads as before
OtherCellsKept ==
    \A q \in Cells \ {pos} :
        get_bit_at(pos_tape', neg_tape', q) = get_bit_at(pos_tape, neg_tape, q)

\* C11: a character other than + , ; < > [ ] leaves tape, head, input cursor,
\* output buffer and output cursor unchanged, does not fail, and advances the
\* program counter by one; no step alters the program text.
C11_OtherCharsNoop ==
    [][/\ code' = code
       /\ (Dispatching /\ Command \notin Meaningful)
            => /\ code_index' = code_index + 1
               /\ status' \in {"Running", "Halted"}
               /\ UNCHANGED <<pos, pos_tape, neg_tape, input, input_bit,
                              output, output_bit>>]_vars

C11_Witness ==
    /\ code = <<"+", " ">>
    /\ status = "Halted"
    /\ code_index = 2
    /\ pos_tape = <<TRUE>>

\* C12: a '[' executed while the bit at the head is true, and a ']' executed
\* while it is false, fall through to the next instruction without a call of
\* the bracket matcher, so they do not fail even without a partner.
C12_UntakenJumpFallsThrough ==
    [][(Dispatching /\ ((Command = "[" /\ get_bit) \/ (Command = "]" /\ ~get_bit)))
         => /\ code_index' = code_index + 1
            /\ status' \in {"Running", "Halted"}
            /\ error' = "none"
            /\ ret' = ret]_vars

C12_Witness ==
    /\ code = <<"+", "[">>
    /\ status = "Halted"
    /\ code_index = 2
    /\ ret = NoMatch

\* C13: a successful step that is not a taken jump increases the program
\* counter by one; a taken '[' sets it to one past the matching ']' and a
\* taken ']' to the index of the matching '[', with no further increment.
C13_ProgramCounterUpdate ==
    [][(Dispatching /\ Succeeded)
         => IF Command = "[" /\ ~get_bit
            THEN \E j \in Closers(code, code_index) : code_index' = j + 1
            ELSE IF Command = "]" /\ get_bit
            THEN \E i \in Openers(code, code_index) : code_index' = i
            ELSE code_index' = code_index + 1]_vars

C13_Witness ==
    /\ code = <<"+", "[", " ", "]">>
    /\ code_index = 1
    /\ ret = MatchOk(1)
    /\ status = "Running"

\* C14: '+' changes only the cell at the head, to its negation; ',' only the
\* cell at the head and the input cursor; ';' only the output buffer and
\* cursor; '<' and '>' only the head, by -1 and +1; '[' and ']' nothing but
\* the program counter.  Only '<' and '>' change the head, and ';', '[' and
\* ']' neither change nor grow the tape.
C14_InstructionFrames ==
    [][Dispatching
         => /\ Command = "+"
                 => /\ get_bit_at(pos_tape', neg_tape', pos) = ~get_bit
                    /\ OtherCellsKept
                    /\ UNCHANGED <<pos, input, input_bit, output, output_bit, code>>
            /\ Command = ","
                 => /\ OtherCellsKept
                    /\ input_bit' \in {input_bit, input_bit + 1}
                    /\ input_bit' = input_bit => UNCHANGED <<pos_tape, neg_tape>>
                    /\ UNCHANGED <<pos, input, output, output_bit, code>>
            /\ Command = ";"
                 => UNCHANGED <<pos, pos_tape, neg_tape, input, input_bit, code>>
            /\ Command = "<"
                 => /\ pos' = pos - 1
                    /\ UNCHANGED <<pos_tape, neg_tape, input, input_bit, output,
                                   output_bit, code>>
            /\ Command = ">"
                 => /\ pos' = pos + 1
                    /\ UNCHANGED <<pos_tape, neg_tape, input, input_bit, output,
                                   output_bit, code>>
            /\ Command \in {"[", "]"}
                 => UNCHANGED <<pos, pos_tape, neg_tape, input, input_bit, output,
                                output_bit, code>>
            /\ Command \notin {"<", ">"} => pos' = pos]_vars

C14_Witness ==
    /\ code = <<"<", ",", ";", "]">>
    /\ status = "Running"
    /\ code_index = 3
    /\ pos = -1
    /\ neg_tape = <<TRUE>>
    /\ pos_tape = <<>>
    /\ output = <<1>>

\* C15: a successful step returns continue exactly when the program counter
\* after it is below the program length and halt otherwise, and run returns
\* the output buffer as soon as a step returns halt.
C15_ContinueOrHalt ==
    [][/\ Succeeded => (status' = "Running" <=> code_index' < Len(code))
       /\ status = "Halted" => UNCHANGED vars]_vars

C15_Witness ==
    /\ code = <<"[", "]">>
    /\ status = "Halted"
    /\ code_index = 2
    /\ ret = MatchOk(2)

\* C16: across every step the input cursor, the output cursor, the output
\* buffer length and both tape lengths never decrease; a write keeps every
\* cell but the head's and fills the cells it creates with false; a byte of
\* the output buffer never loses a set bit.
C16_MonotonicGrowth ==
    [][/\ input_bit' >= input_bit
       /\ output_bit' >= output_bit
       /\ Len(output') >= Len(output)
       /\ Len(pos_tape') >= Len(pos_tape)
       /\ Len(neg_tape') >= Len(neg_tape)
       /\ \A i \in 0..(Len(pos_tape') - 1) :
            i /= pos => pos_tape'[i + 1] = CellOr(pos_tape, i)
       /\ \A i \in 0..(Len(neg_tape') - 1) :
            i /= (-pos) - 1 => neg_tape'[i + 1] = CellOr(neg_tape, i)
       /\ \A k \in 0..(8 * Len(output) - 1) :
            OutBit(output, k) => OutBit(output', k)]_vars

C16_Witness ==
    /\ pos_tape = <<FALSE, FALSE, TRUE>>
    /\ neg_tape = <<>>
    /\ code = <<">", ">", "+", ";">>
    /\ output = <<1>>

\* a program with no ']' in it
NoClose(c) == \A i \in 1..Len(c) : c[i] /= "]"

\* C17: the program counter strictly increases on every successful step
\* except a taken ']'; a run of a non-empty program without ']' makes at most
\* len(program) steps and has ended once it has made that many.
C17_TerminationBound ==
    /\ [][(Succeeded /\ ~(Dispatching /\ Command = "]" /\ get_bit))
            => code_index' > code_index]_vars
    /\ []((code /= <<>> /\ NoClose(code))
            => /\ steps <= Len(code)
               /\ steps = Len(code) => status /= "Running")

C17_Witness ==
    /\ code = <<"+", "[", ">", ",">>
    /\ input = <<>>
    /\ steps = 4
    /\ status = "Failed"
    /\ error = "InputExhausted"

\* C18: for every input of n >= 1 bytes, the run of the program of 8 * n
\* repetitions of ",;" succeeds and returns exactly the input bytes.
C18_RoundTrip ==
    /\ status /= "Panicked"
    /\ status /= "Failed"
    /\ status = "Halted" => output = input

====
